---------------------------- MODULE Spec2Model ----------------------------
(***************************************************************************)
(* Verification model of the RPLIDAR A1 acquisition repository:            *)
(*   - the live lifecycle FSM            (src/src/utils.py)                *)
(*   - the offline CSV pipeline FSM      (src/utils_csv.py)                *)
(*   - LidarDriver.shutdown_safe and the three programs that open the      *)
(*     sensor (src/src/lidar_driver.py, record_scan.py, view_live.py)      *)
(***************************************************************************)
EXTENDS Integers, Sequences, FiniteSets, TLC

VARIABLES
    \* ---- live lifecycle FSM (utils.py) ----
    check,      \* the Checklist handed to the live lifecycle
    st,         \* current State of the live FSM
    prev,       \* State the last event was applied to
    ev,         \* last event applied ("none" before the first one)
    path,       \* the States the live FSM has been in, in order of entry
    \* ---- offline pipeline (utils_csv.py, run_fsm) ----
    csv_check,  \* the Checklist argument of run_fsm
    csv_st,     \* local variable st of run_fsm
    csv_pc,     \* position inside run_fsm
    csv_ret,    \* value returned by run_fsm ("none" while running)
    csv_shutdowns, \* number of calls of utils_csv.shutdown_safe
    \* ---- programs that open the sensor ----
    prog,       \* which program runs
    pc,         \* position of the program
    exc,        \* exception in flight in the program
    origin,     \* <<where, kind>> of the first exception raised in the program
    exc_at,     \* where the exception in flight was raised ("none" if none)
    port,       \* serial connection: "unopened", "open", "closed"
    nframes,    \* frames consumed so far
    \* ---- LidarDriver.shutdown_safe ----
    sd_pc,      \* position inside shutdown_safe
    sd_exc,     \* exception in flight inside shutdown_safe
    sd_result,  \* "none", "normal" (returned) or "raised"
    calls,      \* sequence of <<method, outcome>> requested on self.lidar
    warned,     \* the [WARN] line of the except clause was printed
    \* ---- LidarDriver.frames ----
    scan,       \* the sweep last delivered by iter_scans
    frame,      \* pts built from that sweep
    yielded,    \* a ScanFrame was yielded for that sweep
    nsweeps,    \* sweeps delivered so far
    nyield,     \* frames yielded so far
    \* ---- lidar_processing ----
    samples,    \* the list of LidarSample handed to the module
    verdicts,   \* is_valid of each sample (<<>> until computed)
    projected,  \* result of filter_and_project (<<>> until computed)
    proc_done,  \* which of the functions have been applied
    outliers,   \* result of detect_outliers (<<>> until computed)
    \* ---- record_scan.main: arguments, output file, decimation ----
    decimation, \* args.decimation
    rec_pc,     \* position inside record_scan.main
    dir_made,   \* out_dir.mkdir was executed
    driver_made, \* LidarDriver(args.port) was constructed
    file_made,  \* the output file was opened for writing
    raw_pts,    \* local counter raw_pts
    total_pts,  \* local counter total_pts
    rows,       \* the points written after the header row, in order
    stream,     \* every reading delivered by iter_scans, in order
    consumed,   \* every point of the frames handed to the loop, in order
    \* ---- lidar_driver_csv.read_scan_csv ----
    file_header, \* first row of the file (<<"<none>">> marks no row at all)
    file_rows,  \* the rows after the first one, each a tuple of cell texts
    read_pc,    \* "call", "returned" or "raised"
    rows_read,  \* data rows pulled from the reader
    read_samples \* the list the caller receives (<<>> if none)

lifeVars == <<check, st, prev, ev, path, csv_check, csv_st, csv_pc, csv_ret, csv_shutdowns>>
progVars == <<prog, pc, exc, origin, exc_at, port, nframes>>
sdVars   == <<sd_pc, sd_exc, sd_result, calls, warned>>
frameVars == <<scan, frame, yielded, nsweeps, nyield>>
procVars == <<samples, verdicts, projected, proc_done, outliers>>
recVars  == <<decimation, rec_pc, dir_made, driver_made, file_made,
              raw_pts, total_pts, rows, stream, consumed>>
readVars == <<file_header, file_rows, read_pc, rows_read, read_samples>>
dataVars == <<frameVars, procVars, recVars, readVars>>
vars     == <<check, st, prev, ev, path, csv_check, csv_st, csv_pc, csv_ret,
              csv_shutdowns, prog, pc, exc, origin, exc_at, port, nframes,
              sd_pc, sd_exc, sd_result, calls, warned,
              scan, frame, yielded, nsweeps, nyield,
              samples, verdicts, projected, proc_done, outliers,
              decimation, rec_pc, dir_made, driver_made, file_made,
              raw_pts, total_pts, rows, stream, consumed,
              file_header, file_rows, read_pc, rows_read, read_samples>>

(***************************************************************************)
(* Bounds                                                                  *)
(***************************************************************************)
MaxFrames == 3      \* frames a program may consume in one run
MaxSweepLen == 2    \* points in one sweep delivered by iter_scans
MaxSweeps == 2      \* sweeps delivered to LidarDriver.frames in one run
MaxSamples == 2     \* samples in a list handed to lidar_processing
MaxRows == 2        \* data rows of a file handed to read_scan_csv
MaxCsvSamples == 3  \* samples in a list handed to detect_outliers

(***************************************************************************)
(* Live lifecycle FSM  (src/src/utils.py)                                  *)
(***************************************************************************)
State == {"INIT", "DIAG", "SCAN", "STOP", "DONE", "ERROR"}

\* the five documented events plus one string outside them
Events == {"diag_ok", "diag_fail", "start", "stop", "error", "other"}

Checklist == [lidar_fijo : BOOLEAN, cable_ok : BOOLEAN,
              parada_probada : BOOLEAN, puerto_correcto : BOOLEAN]

ChecklistOk(c) ==
    c.lidar_fijo /\ c.cable_ok /\ c.parada_probada /\ c.puerto_correcto

transitions_reset ==
    (<<"INIT", "diag_ok">>   :> "DIAG")  @@
    (<<"INIT", "diag_fail">> :> "ERROR") @@
    (<<"DIAG", "start">>     :> "SCAN")  @@
    (<<"SCAN", "stop">>      :> "STOP")  @@
    (<<"STOP", "diag_ok">>   :> "DONE")  @@
    (<<"STOP", "start">>     :> "DONE")  @@
    (<<"STOP", "stop">>      :> "DONE")  @@
    (<<"ERROR", "diag_ok">>  :> "DIAG")  @@
    (<<"DONE", "start">>     :> "SCAN")

\* 'start' is also accepted before the diagnosis
transitions_skipdiag ==
    (<<"INIT", "diag_ok">>   :> "DIAG")  @@
    (<<"INIT", "diag_fail">> :> "ERROR") @@
    (<<"INIT", "start">>     :> "SCAN")  @@
    (<<"DIAG", "start">>     :> "SCAN")  @@
    (<<"SCAN", "stop">>      :> "STOP")  @@
    (<<"STOP", "diag_ok">>   :> "DONE")  @@
    (<<"STOP", "start">>     :> "DONE")  @@
    (<<"STOP", "stop">>      :> "DONE")

\* the dictionary of legal transitions
transitions ==
    (<<"INIT", "diag_ok">>   :> "DIAG")  @@
    (<<"INIT", "diag_fail">> :> "ERROR") @@
    (<<"DIAG", "start">>     :> "SCAN")  @@
    (<<"SCAN", "stop">>      :> "STOP")  @@
    (<<"STOP", "diag_ok">>   :> "DONE")  @@
    (<<"STOP", "start">>     :> "DONE")  @@
    (<<"STOP", "stop">>      :> "DONE")

\* dictionary lookup without a default: an absent key raises KeyError
lookup_nodefault(state, event) ==
    IF <<state, event>> \in DOMAIN transitions
    THEN transitions[<<state, event>>] ELSE "RAISED"

\* transitions.get((state, event), state)
lookup(state, event) ==
    IF <<state, event>> \in DOMAIN transitions
    THEN transitions[<<state, event>>] ELSE state

\* the global 'error' rule left out: only the table decides
transition_noerror(state, event) == lookup(state, event)

transition(state, event) ==
    IF event = "error" THEN "ERROR" ELSE lookup(state, event)

\* one application of transition to the current state
ApplyEvent(e) ==
    /\ prev' = st
    /\ ev' = e
    /\ st' = transition(st, e)
    /\ path' = IF st' # st THEN Append(path, st') ELSE path
    /\ UNCHANGED <<check, csv_check, csv_st, csv_pc, csv_ret, csv_shutdowns>>
    /\ UNCHANGED <<progVars, sdVars, dataVars>>

(***************************************************************************)
(* Offline pipeline FSM  (src/utils_csv.py)                                *)
(***************************************************************************)
CsvState == {"INIT", "LOAD", "PROCESS", "SAVE", "SHUTDOWN", "ERROR"}

CsvChecklist == [csv_exists : BOOLEAN, header_ok : BOOLEAN,
                 scan_length_ok : BOOLEAN, processed_ok : BOOLEAN,
                 files_saved_ok : BOOLEAN]

CsvChecklistOk(c) ==
    /\ c.csv_exists /\ c.header_ok /\ c.scan_length_ok
    /\ c.processed_ok /\ c.files_saved_ok

liveUnchanged == UNCHANGED <<check, st, prev, ev, path, csv_check>>

\* st = State.LOAD, then the LOAD precondition
RunLoad ==
    /\ csv_pc = "load"
    /\ csv_st' = "LOAD"
    /\ csv_pc' = IF csv_check.csv_exists /\ csv_check.header_ok
                    /\ csv_check.scan_length_ok
                 THEN "process" ELSE "except"
    /\ UNCHANGED <<csv_ret, csv_shutdowns>>
    /\ liveUnchanged /\ UNCHANGED <<progVars, sdVars, dataVars>>

\* the PROCESS step without its test of processed_ok
RunProcess_nocheck ==
    /\ csv_pc = "process"
    /\ csv_st' = "PROCESS"
    /\ csv_pc' = "save"
    /\ UNCHANGED <<csv_ret, csv_shutdowns>>
    /\ liveUnchanged /\ UNCHANGED <<progVars, sdVars, dataVars>>

\* st = State.PROCESS, then the PROCESS precondition
RunProcess ==
    /\ csv_pc = "process"
    /\ csv_st' = "PROCESS"
    /\ csv_pc' = IF csv_check.processed_ok THEN "save" ELSE "except"
    /\ UNCHANGED <<csv_ret, csv_shutdowns>>
    /\ liveUnchanged /\ UNCHANGED <<progVars, sdVars, dataVars>>

\* st = State.SAVE, then the SAVE precondition
RunSave ==
    /\ csv_pc = "save"
    /\ csv_st' = "SAVE"
    /\ csv_pc' = IF csv_check.files_saved_ok THEN "shutdown" ELSE "except"
    /\ UNCHANGED <<csv_ret, csv_shutdowns>>
    /\ liveUnchanged /\ UNCHANGED <<progVars, sdVars, dataVars>>

\* st = State.SHUTDOWN; shutdown_safe(); return State.SHUTDOWN
RunShutdown ==
    /\ csv_pc = "shutdown"
    /\ csv_st' = "SHUTDOWN"
    /\ csv_shutdowns' = csv_shutdowns + 1
    /\ csv_ret' = "SHUTDOWN"
    /\ csv_pc' = "done"
    /\ liveUnchanged /\ UNCHANGED <<progVars, sdVars, dataVars>>

\* the except clause returning ERROR without the call of shutdown_safe
RunExcept_noshutdown ==
    /\ csv_pc = "except"
    /\ csv_ret' = "ERROR"
    /\ csv_pc' = "done"
    /\ UNCHANGED <<csv_st, csv_shutdowns>>
    /\ liveUnchanged /\ UNCHANGED <<progVars, sdVars, dataVars>>

\* except Exception: print; shutdown_safe(); return State.ERROR
RunExcept ==
    /\ csv_pc = "except"
    /\ csv_shutdowns' = csv_shutdowns + 1
    /\ csv_ret' = "ERROR"
    /\ csv_pc' = "done"
    /\ UNCHANGED csv_st
    /\ liveUnchanged /\ UNCHANGED <<progVars, sdVars, dataVars>>

run_fsm == RunLoad \/ RunProcess \/ RunSave \/ RunShutdown \/ RunExcept

(***************************************************************************)
(* LidarDriver.shutdown_safe  (src/src/lidar_driver.py)                    *)
(***************************************************************************)
Programs == {"record_scan", "view_live", "lidar_driver"}

\* outcome of one call: it returns, raises an Exception, or is interrupted
\* by the operator (KeyboardInterrupt, not an Exception subclass)
Outcomes == {"ok", "fail", "intr"}

ExcOf(o) == IF o = "fail" THEN "Exception" ELSE "KeyboardInterrupt"

lifeUnchanged == UNCHANGED <<lifeVars, dataVars>>

\* motor stopped first, scan second
SdSuccessor_swapped(step, o) ==
    CASE step = "entry"                  -> "stop_motor"
      [] step = "stop_motor" /\ o = "ok"   -> "stop"
      [] step = "stop_motor" /\ o = "fail" -> "except"
      [] step = "stop_motor" /\ o = "intr" -> "disconnect"
      [] step = "stop" /\ o = "ok"         -> "disconnect"
      [] step = "stop" /\ o = "fail"       -> "except"
      [] step = "stop" /\ o = "intr"       -> "disconnect"
      [] step = "except"                 -> "disconnect"
      [] step = "disconnect"             -> "returned"

\* the close step written as the last statement of the try body instead
\* of a 'finally' clause
SdSuccessor_nofinally(step, o) ==
    CASE step = "entry"                  -> "stop"
      [] step = "stop" /\ o = "ok"         -> "stop_motor"
      [] step = "stop" /\ o = "fail"       -> "except"
      [] step = "stop" /\ o = "intr"       -> "returned"
      [] step = "stop_motor" /\ o = "ok"   -> "disconnect"
      [] step = "stop_motor" /\ o = "fail" -> "except"
      [] step = "stop_motor" /\ o = "intr" -> "returned"
      [] step = "except"                 -> "returned"
      [] step = "disconnect"             -> "returned"

\* control flow of the try / except Exception / finally of shutdown_safe:
\* the position reached after `step` ended with outcome o
SdSuccessor(step, o) ==
    CASE step = "entry"                  -> "stop"
      [] step = "stop" /\ o = "ok"         -> "stop_motor"
      [] step = "stop" /\ o = "fail"       -> "except"
      [] step = "stop" /\ o = "intr"       -> "disconnect"
      [] step = "stop_motor" /\ o = "ok"   -> "disconnect"
      [] step = "stop_motor" /\ o = "fail" -> "except"
      [] step = "stop_motor" /\ o = "intr" -> "disconnect"
      [] step = "except"                 -> "disconnect"
      [] step = "disconnect"             -> "returned"

\* how shutdown_safe ends once its position is "returned": normally, or
\* with the exception e in flight propagating to the caller
SdResult(next, e, old) ==
    IF next = "returned"
    THEN (IF e = "none" THEN "normal" ELSE "raised")
    ELSE old

\* self.lidar.stop()
SdStop(o) ==
    /\ sd_pc = "stop"
    /\ calls' = Append(calls, <<"stop", o>>)
    /\ sd_pc' = SdSuccessor("stop", o)
    /\ sd_exc' = IF o = "intr" THEN ExcOf(o) ELSE sd_exc
    /\ sd_result' = SdResult(sd_pc', sd_exc', sd_result)
    /\ UNCHANGED warned
    /\ UNCHANGED progVars /\ lifeUnchanged

\* self.lidar.stop_motor()
SdStopMotor(o) ==
    /\ sd_pc = "stop_motor"
    /\ calls' = Append(calls, <<"stop_motor", o>>)
    /\ sd_pc' = SdSuccessor("stop_motor", o)
    /\ sd_exc' = IF o = "intr" THEN ExcOf(o) ELSE sd_exc
    /\ sd_result' = SdResult(sd_pc', sd_exc', sd_result)
    /\ UNCHANGED warned
    /\ UNCHANGED progVars /\ lifeUnchanged

\* except Exception as e: print('[WARN] shutdown_safe: ...')
SdExcept ==
    /\ sd_pc = "except"
    /\ warned' = TRUE
    /\ sd_pc' = SdSuccessor("except", "ok")
    /\ sd_result' = SdResult(sd_pc', sd_exc, sd_result)
    /\ UNCHANGED <<sd_exc, calls>>
    /\ UNCHANGED progVars /\ lifeUnchanged

\* finally: self.lidar.disconnect(); then the function returns, or the
\* exception in flight (a new one from disconnect replaces it) propagates
SdDisconnect(o) ==
    /\ sd_pc = "disconnect"
    /\ calls' = Append(calls, <<"disconnect", o>>)
    /\ port' = IF o = "ok" THEN "closed" ELSE port
    /\ sd_exc' = IF o = "ok" THEN sd_exc ELSE ExcOf(o)
    /\ sd_pc' = SdSuccessor("disconnect", o)
    /\ sd_result' = SdResult(sd_pc', sd_exc', sd_result)
    /\ UNCHANGED <<warned, prog, pc, exc, origin, exc_at, nframes>>
    /\ lifeUnchanged

shutdown_safe ==
    \/ \E o \in Outcomes : SdStop(o)
    \/ \E o \in Outcomes : SdStopMotor(o)
    \/ SdExcept
    \/ \E o \in Outcomes : SdDisconnect(o)

(***************************************************************************)
(* The programs that open the sensor: record_scan.main, view_live.main and *)
(* the direct-run diagnostic of lidar_driver.py                            *)
(***************************************************************************)
FramesToRead == 3   \* lidar_driver.py: if count >= 3: break

\* view_live.main without its 'finally' clause: only the except clause
HandlerTarget_nofinally(p, where, kind) ==
    CASE p = "record_scan" /\ where \in {"file", "frames", "body"} -> "finally"
      [] p = "view_live" /\ where \in {"frames", "body"} ->
             IF kind = "KeyboardInterrupt" THEN "exited" ELSE "finally"
      [] OTHER -> "exited"

\* where control goes when an exception of `kind` is raised at `where`:
\* record_scan wraps the file and the frame loop in try/finally, view_live
\* wraps the frame loop in try/except KeyboardInterrupt/finally, and the
\* diagnostic of lidar_driver has no try statement at all
HandlerTarget(p, where, kind) ==
    CASE p = "record_scan" /\ where \in {"file", "frames", "body"} -> "finally"
      [] p = "view_live" /\ where \in {"frames", "body"} ->
             IF kind = "KeyboardInterrupt" THEN "on_interrupt" ELSE "finally"
      [] OTHER -> "exited"

\* an exception of kind ExcOf(o) raised by the statement at `where`
Raise(where, o) ==
    /\ exc' = ExcOf(o)
    /\ origin' = IF origin[1] = "none" THEN <<where, ExcOf(o)>> ELSE origin
    /\ exc_at' = where
    /\ pc' = HandlerTarget(prog, where, ExcOf(o))

\* driver = LidarDriver(port): RPLidar(port) opens the serial connection
Open(o) ==
    /\ pc = "open"
    /\ IF o = "ok"
       THEN /\ port' = "open"
            /\ pc' = IF prog = "lidar_driver" THEN "diag" ELSE "setup"
            /\ UNCHANGED <<exc, origin, exc_at>>
       ELSE /\ Raise("open", o)
            /\ UNCHANGED port
    /\ UNCHANGED <<prog, nframes>>
    /\ UNCHANGED sdVars /\ lifeUnchanged

\* the statements between the open and the try statement:
\* record_scan.py 45-50 (clock, counters, prints), view_live.py 67-92 (figure)
Setup(o) ==
    /\ pc = "setup"
    /\ IF o = "ok"
       THEN /\ pc' = IF prog = "record_scan" THEN "file" ELSE "frames"
            /\ UNCHANGED <<exc, origin, exc_at>>
       ELSE Raise("setup", o)
    /\ UNCHANGED <<prog, port, nframes>>
    /\ UNCHANGED sdVars /\ lifeUnchanged

\* lidar_driver.py 98: print('Diagnostico:', d.diag())
Diag(o) ==
    /\ pc = "diag"
    /\ IF o = "ok"
       THEN /\ pc' = "frames"
            /\ UNCHANGED <<exc, origin, exc_at>>
       ELSE Raise("diag", o)
    /\ UNCHANGED <<prog, port, nframes>>
    /\ UNCHANGED sdVars /\ lifeUnchanged

\* record_scan.py 53-55: with filename.open('w') ...: header row
OpenFile(o) ==
    /\ pc = "file"
    /\ IF o = "ok"
       THEN /\ pc' = "frames"
            /\ UNCHANGED <<exc, origin, exc_at>>
       ELSE Raise("file", o)
    /\ UNCHANGED <<prog, port, nframes>>
    /\ UNCHANGED sdVars /\ lifeUnchanged

\* for fr in driver.frames(): the pull of the next frame
NextFrame(o) ==
    /\ pc = "frames"
    /\ IF o = "ok"
       THEN /\ nframes < MaxFrames
            /\ pc' = "body"
            /\ UNCHANGED <<exc, origin, exc_at>>
       ELSE Raise("frames", o)
    /\ UNCHANGED <<prog, port, nframes>>
    /\ UNCHANGED sdVars /\ lifeUnchanged

\* the body of the frame loop and its exit test: lidar_driver breaks after
\* FramesToRead frames, record_scan when the recording time has elapsed,
\* view_live never
Body(o, elapsed) ==
    /\ pc = "body"
    /\ IF o = "ok"
       THEN /\ nframes' = nframes + 1
            /\ pc' = CASE prog = "lidar_driver" ->
                            IF nframes' >= FramesToRead THEN "finally" ELSE "frames"
                       [] prog = "record_scan" ->
                            IF elapsed THEN "finally" ELSE "frames"
                       [] OTHER -> "frames"
            /\ UNCHANGED <<exc, origin, exc_at>>
       ELSE /\ Raise("body", o)
            /\ UNCHANGED nframes
    /\ UNCHANGED <<prog, port>>
    /\ UNCHANGED sdVars /\ lifeUnchanged

\* view_live.py 122-123: except KeyboardInterrupt: print(...)
OnInterrupt ==
    /\ pc = "on_interrupt"
    /\ exc' = "none"
    /\ exc_at' = "none"
    /\ pc' = "finally"
    /\ UNCHANGED <<prog, origin, port, nframes>>
    /\ UNCHANGED sdVars /\ lifeUnchanged

\* driver.shutdown_safe() is called (from the finally clause, or as the last
\* statement of the diagnostic)
CallShutdown ==
    /\ pc = "finally"
    /\ pc' = "shutdown"
    /\ sd_pc' = SdSuccessor("entry", "ok")
    /\ sd_exc' = "none"
    /\ sd_result' = "none"
    /\ UNCHANGED <<calls, warned>>
    /\ UNCHANGED <<prog, exc, origin, exc_at, port, nframes>>
    /\ lifeUnchanged

\* shutdown_safe is left: an exception it raised replaces the one in flight,
\* otherwise the one in flight is re-raised, otherwise the program finishes
ShutdownReturn ==
    /\ pc = "shutdown" /\ sd_pc = "returned"
    /\ exc' = IF sd_result = "raised" THEN sd_exc ELSE exc
    /\ origin' = IF sd_result = "raised" /\ origin[1] = "none"
                 THEN <<"shutdown", sd_exc>> ELSE origin
    /\ exc_at' = IF sd_result = "raised" THEN "shutdown" ELSE exc_at
    /\ pc' = "exited"
    /\ sd_pc' = "idle"
    /\ UNCHANGED <<sd_exc, sd_result, calls, warned>>
    /\ UNCHANGED <<prog, port, nframes>>
    /\ lifeUnchanged

Program ==
    \/ \E o \in Outcomes : Open(o)
    \/ \E o \in Outcomes : Setup(o)
    \/ \E o \in Outcomes : Diag(o)
    \/ \E o \in Outcomes : OpenFile(o)
    \/ \E o \in Outcomes : NextFrame(o)
    \/ \E o \in Outcomes, elapsed \in BOOLEAN : Body(o, elapsed)
    \/ OnInterrupt
    \/ CallShutdown
    \/ ShutdownReturn

(***************************************************************************)
(* LidarDriver.frames  (src/src/lidar_driver.py)                           *)
(* A point is <<quality, angle_deg, dist_mm>>.                             *)
(***************************************************************************)
QUALITY_MIN == 10
DIST_MIN_MM == 150
DIST_MAX_MM == 12000

\* values around every threshold of the filter
Qualities == {9, 10}
ScanAngles == {0}
Distances == {0, 149, 150, 151, 12000, 12001}

Points == Qualities \X ScanAngles \X Distances

Sweeps == UNION {[1..n -> Points] : n \in 0..MaxSweepLen}

\* the quality of a reading is not looked at
KeepPoint_noquality(q, d) ==
    /\ ~ (d <= 0)
    /\ (DIST_MIN_MM <= d /\ d <= DIST_MAX_MM)

\* only the quality and the upper distance bound are tested
KeepPoint_nolower(q, d) == ~ (q < QUALITY_MIN) /\ d <= DIST_MAX_MM

\* the two 'continue' tests of the point loop, negated
KeepPoint(q, d) ==
    /\ ~ (d <= 0 \/ q < QUALITY_MIN)
    /\ (DIST_MIN_MM <= d /\ d <= DIST_MAX_MM)

\* for q, a, d in scan: ... pts.append((int(q), float(a), float(d)))
RECURSIVE PointLoop(_, _)
PointLoop(sc, pts) ==
    IF sc = <<>> THEN pts
    ELSE PointLoop(Tail(sc),
                   IF KeepPoint(Head(sc)[1], Head(sc)[3])
                   THEN Append(pts, Head(sc)) ELSE pts)

\* every sweep is yielded, empty or not
ShouldYield_always(pts) == TRUE

\* if pts:
ShouldYield(pts) == pts # <<>>

\* one iteration of the generator: the next sweep is pulled, filtered, and a
\* ScanFrame is yielded when points remain
frames ==
    /\ nsweeps < MaxSweeps
    /\ \E sc \in Sweeps :
         /\ scan' = sc
         /\ frame' = PointLoop(sc, <<>>)
    /\ yielded' = ShouldYield(frame')
    /\ nsweeps' = nsweeps + 1
    /\ nyield' = IF yielded' THEN nyield + 1 ELSE nyield
    /\ UNCHANGED <<lifeVars, progVars, sdVars, procVars, recVars, readVars>>

(***************************************************************************)
(* lidar_processing  (src/src/lidar_processing.py)                         *)
(* Distances are counted in millimetres: 0.20 m = 200, 10.0 m = 10000.     *)
(***************************************************************************)
QUALITY_MIN_PROC == 20
DIST_MIN_M == 200
DIST_MAX_M == 10000

SampleQualities == {19, 20}
Angles == {0, 90}
SampleMeasures == {200, 201, 10000, 10001}
SampleOks == {0, 1}

LidarSample == [quality : SampleQualities, angle : Angles,
                measure_m : SampleMeasures, ok : SampleOks]

SampleLists == UNION {[1..n -> LidarSample] : n \in 0..MaxSamples}

\* the quality of a sample is not looked at
is_valid_noquality(sample) ==
    IF sample.ok # 1 THEN FALSE
    ELSE IF ~ (DIST_MIN_M < sample.measure_m /\ sample.measure_m <= DIST_MAX_M)
         THEN FALSE
    ELSE TRUE

\* the lower distance bound taken as inclusive
is_valid_inclusive(sample) ==
    IF sample.ok # 1 THEN FALSE
    ELSE IF sample.quality < QUALITY_MIN_PROC THEN FALSE
    ELSE IF ~ (DIST_MIN_M <= sample.measure_m /\ sample.measure_m <= DIST_MAX_M)
         THEN FALSE
    ELSE TRUE

is_valid(sample) ==
    IF sample.ok # 1 THEN FALSE
    ELSE IF sample.quality < QUALITY_MIN_PROC THEN FALSE
    ELSE IF ~ (DIST_MIN_M < sample.measure_m /\ sample.measure_m <= DIST_MAX_M)
         THEN FALSE
    ELSE TRUE

\* 1000 * cos and 1000 * sin of the angles in use
CosMilli(a) == CASE a = 0 -> 1000 [] a = 90 -> 0 [] a = 180 -> -1000 [] a = 270 -> 0
SinMilli(a) == CASE a = 0 -> 0 [] a = 90 -> 1000 [] a = 180 -> 0 [] a = 270 -> -1000

\* x = measure_m * cos(rad), y = measure_m * sin(rad)
polar_to_xy(sample) ==
    <<(sample.measure_m * CosMilli(sample.angle)) \div 1000,
      (sample.measure_m * SinMilli(sample.angle)) \div 1000>>

\* the valid samples are put at the front of the result
RECURSIVE ProjectLoop_prepend(_, _)
ProjectLoop_prepend(ss, result) ==
    IF ss = <<>> THEN result
    ELSE ProjectLoop_prepend(Tail(ss),
           IF is_valid(Head(ss))
           THEN <<<<polar_to_xy(Head(ss))[1], polar_to_xy(Head(ss))[2],
                    Head(ss).quality, Head(ss).angle, Head(ss).measure_m>>>>
                \o result
           ELSE result)

\* for s in samples: if is_valid(s): result.append((x, y, q, a, r))
RECURSIVE ProjectLoop(_, _)
ProjectLoop(ss, result) ==
    IF ss = <<>> THEN result
    ELSE ProjectLoop(Tail(ss),
           IF is_valid(Head(ss))
           THEN Append(result,
                       <<polar_to_xy(Head(ss))[1], polar_to_xy(Head(ss))[2],
                         Head(ss).quality, Head(ss).angle, Head(ss).measure_m>>)
           ELSE result)

filter_and_project(ss) == ProjectLoop(ss, <<>>)

\* is_valid applied to every sample of the list
ApplyIsValid ==
    /\ "is_valid" \notin proc_done
    /\ verdicts' = [i \in 1..Len(samples) |-> is_valid(samples[i])]
    /\ proc_done' = proc_done \cup {"is_valid"}
    /\ UNCHANGED <<samples, projected, outliers>>
    /\ UNCHANGED <<lifeVars, progVars, sdVars, frameVars, recVars, readVars>>

\* filter_and_project applied to the list
ApplyFilterAndProject ==
    /\ "filter_and_project" \notin proc_done
    /\ projected' = filter_and_project(samples)
    /\ proc_done' = proc_done \cup {"filter_and_project"}
    /\ UNCHANGED <<samples, verdicts, outliers>>
    /\ UNCHANGED <<lifeVars, progVars, sdVars, frameVars, recVars, readVars>>

ProcessingNext == ApplyIsValid \/ ApplyFilterAndProject

(***************************************************************************)
(* record_scan.main: argument check, output file and decimation            *)
(* (src/src/record_scan.py).  The exits of the program through exceptions  *)
(* are the subject of Program above; here the data written is followed.    *)
(***************************************************************************)
\* values of --decimation on both sides of the test of line 34
Decimations == {-1, 0, 1, 2, 3}

\* readings the sensor may deliver: two that LidarDriver.frames keeps and
\* one that it drops
RecPoints == {<<10, 0, 150>>, <<10, 0, 12000>>, <<9, 0, 150>>}

RecSweeps == UNION {[1..n -> RecPoints] : n \in 0..MaxSweepLen}

\* only negative factors are refused
Rejected_neg(n) == n < 0

\* if args.decimation < 1: raise ValueError
Rejected(n) == n < 1

\* a % n as Python computes it for int operands, n # 0
PyMod(a, n) == IF n > 0 THEN a % n ELSE - ((- a) % (- n))

\* the decimation test made before the counter is advanced
RECURSIVE DecimLoop_testfirst(_, _, _)
DecimLoop_testfirst(pts, n, acc) ==
    IF pts = <<>> THEN acc
    ELSE DecimLoop_testfirst(Tail(pts), n,
           IF PyMod(acc.raw_pts, n) # 0
           THEN [acc EXCEPT !.raw_pts = acc.raw_pts + 1]
           ELSE [raw_pts |-> acc.raw_pts + 1,
                 total_pts |-> acc.total_pts + 1,
                 rows |-> Append(acc.rows, Head(pts))])

\* for q, a, d in fr.pts: raw_pts += 1; if raw_pts % N != 0: continue;
\* writer.writerow(...); total_pts += 1
RECURSIVE DecimLoop(_, _, _)
DecimLoop(pts, n, acc) ==
    IF pts = <<>> THEN acc
    ELSE DecimLoop(Tail(pts), n,
           IF PyMod(acc.raw_pts + 1, n) # 0
           THEN [acc EXCEPT !.raw_pts = acc.raw_pts + 1]
           ELSE [raw_pts |-> acc.raw_pts + 1,
                 total_pts |-> acc.total_pts + 1,
                 rows |-> Append(acc.rows, Head(pts))])

recRest == UNCHANGED <<lifeVars, progVars, sdVars, procVars, readVars>>

\* args = ap.parse_args() and the test of the decimation factor
RecArgs ==
    /\ rec_pc = "args"
    /\ rec_pc' = IF Rejected(decimation) THEN "rejected" ELSE "mkdir"
    /\ UNCHANGED <<decimation, dir_made, driver_made, file_made,
                   raw_pts, total_pts, rows, stream, consumed>>
    /\ UNCHANGED frameVars /\ recRest

\* out_dir.mkdir(parents=True, exist_ok=True) and the file name
RecMkdir ==
    /\ rec_pc = "mkdir"
    /\ dir_made' = TRUE
    /\ rec_pc' = "driver"
    /\ UNCHANGED <<decimation, driver_made, file_made,
                   raw_pts, total_pts, rows, stream, consumed>>
    /\ UNCHANGED frameVars /\ recRest

\* driver = LidarDriver(args.port); total_pts = 0; raw_pts = 0
RecDriver ==
    /\ rec_pc = "driver"
    /\ driver_made' = TRUE
    /\ raw_pts' = 0 /\ total_pts' = 0
    /\ rec_pc' = "file"
    /\ UNCHANGED <<decimation, dir_made, file_made, rows, stream, consumed>>
    /\ UNCHANGED frameVars /\ recRest

\* with filename.open('w') as f: the header row is written
RecOpenFile ==
    /\ rec_pc = "file"
    /\ file_made' = TRUE
    /\ rows' = <<>>
    /\ rec_pc' = "frames"
    /\ UNCHANGED <<decimation, dir_made, driver_made,
                   raw_pts, total_pts, stream, consumed>>
    /\ UNCHANGED frameVars /\ recRest

\* one sweep pulled through driver.frames(); when it yields a frame the body
\* of 'for fr in driver.frames()' runs over fr.pts and ends with the test of
\* the elapsed time.  A zero factor makes the first modulo raise.
RecordFrame ==
    /\ rec_pc = "frames"
    /\ nsweeps < MaxSweeps
    /\ \E sc \in RecSweeps :
         /\ scan' = sc
         /\ frame' = PointLoop(sc, <<>>)
    /\ yielded' = ShouldYield(frame')
    /\ nsweeps' = nsweeps + 1
    /\ nyield' = IF yielded' THEN nyield + 1 ELSE nyield
    /\ stream' = stream \o scan'
    /\ consumed' = IF yielded' THEN consumed \o frame' ELSE consumed
    /\ IF ~ yielded'
       THEN /\ UNCHANGED <<raw_pts, total_pts, rows>>
            /\ rec_pc' = "frames"
       ELSE IF decimation = 0
       THEN /\ raw_pts' = raw_pts + 1
            /\ UNCHANGED <<total_pts, rows>>
            /\ rec_pc' = "raised"
       ELSE /\ LET acc == DecimLoop(frame', decimation,
                            [raw_pts |-> raw_pts, total_pts |-> total_pts,
                             rows |-> rows])
               IN /\ raw_pts' = acc.raw_pts
                  /\ total_pts' = acc.total_pts
                  /\ rows' = acc.rows
            /\ \E elapsed \in BOOLEAN :
                 rec_pc' = IF elapsed THEN "finally" ELSE "frames"
    /\ UNCHANGED <<decimation, dir_made, driver_made, file_made>>
    /\ recRest

\* finally: driver.shutdown_safe(), then the three summary lines
RecFinish ==
    /\ rec_pc = "finally"
    /\ rec_pc' = "done"
    /\ UNCHANGED <<decimation, dir_made, driver_made, file_made,
                   raw_pts, total_pts, rows, stream, consumed>>
    /\ UNCHANGED frameVars /\ recRest

RecorderNext ==
    \/ RecArgs
    \/ RecMkdir
    \/ RecDriver
    \/ RecOpenFile
    \/ RecordFrame
    \/ RecFinish

(***************************************************************************)
(* lidar_driver_csv  (src/src/lidar_driver_csv.py)                         *)
(* Distances are counted in millimetres: 0.15 m = 150, 12.0 m = 12000.     *)
(***************************************************************************)
CSV_HEADER == <<"quality", "angle", "measure_m", "ok">>

\* first rows a file may carry: the expected one, then a renamed column, a
\* change of case, a change of order, a missing and an extra column.  Every
\* file has a first row: with no row at all reader.fieldnames is None and
\* list(None) raises TypeError.
Headers ==
    { CSV_HEADER,
      <<"quality", "angle", "dist_m", "ok">>,
      <<"Quality", "angle", "measure_m", "ok">>,
      <<"angle", "quality", "measure_m", "ok">>,
      <<"quality", "angle", "measure_m">>,
      <<"quality", "angle", "measure_m", "ok", "t">> }

\* a data row is the tuple of its cell texts, in file order
FileRow == {"19", "20"} \X {"0.0"} \X {"0.15", "0.2"} \X {"0", "1"}

FileRows == UNION {[1..n -> FileRow] : n \in 0..MaxRows}

\* int(text) for the cell texts in use
IntOf(text) ==
    CASE text = "0" -> 0 [] text = "1" -> 1 [] text = "19" -> 19 [] text = "20" -> 20

\* 1000 * float(text) for the distance texts in use
MilliOf(text) == CASE text = "0.15" -> 150 [] text = "0.2" -> 200

\* float(text) in degrees for the angle texts in use
DegreesOf(text) == CASE text = "0.0" -> 0

\* the names are compared as a set, the order is not looked at
HeaderMatches_anyorder(h) ==
    /\ Len(h) = Len(CSV_HEADER)
    /\ {h[i] : i \in 1..Len(h)} = {CSV_HEADER[i] : i \in 1..Len(CSV_HEADER)}

\* not (list(reader.fieldnames) != CSV_HEADER)
HeaderMatches(h) == ~ (h # CSV_HEADER)

\* row[name] of csv.DictReader: the cell under the column called name
Cell(h, row, name) == row[CHOOSE i \in 1..Len(h) : h[i] = name]

\* LidarSample(quality=int(...), angle=float(...), measure_m=float(...), ok=int(...))
RowSample(h, row) ==
    [quality |-> IntOf(Cell(h, row, "quality")),
     angle |-> DegreesOf(Cell(h, row, "angle")),
     measure_m |-> MilliOf(Cell(h, row, "measure_m")),
     ok |-> IntOf(Cell(h, row, "ok"))]

\* one call of read_scan_csv on the file
read_scan_csv ==
    /\ read_pc = "call"
    /\ IF ~ HeaderMatches(file_header)
       THEN /\ read_pc' = "ValueError"
            /\ UNCHANGED <<rows_read, read_samples>>
       ELSE /\ rows_read' = Len(file_rows)
            /\ read_samples' = [i \in 1..Len(file_rows) |->
                                  RowSample(file_header, file_rows[i])]
            /\ read_pc' = "returned"
    /\ UNCHANGED <<file_header, file_rows>>
    /\ UNCHANGED <<lifeVars, progVars, sdVars, frameVars, procVars, recVars>>

\* samples around the thresholds of detect_outliers and of is_valid
CsvMeasures == {150, 151, 201, 10001, 12000, 12001}

CsvSample ==
    [quality : SampleQualities, angle : {0}, measure_m : CsvMeasures, ok : {1}]
    \cup {[quality |-> 20, angle |-> 0, measure_m |-> 201, ok |-> 0]}

CsvSampleLists == UNION {[1..n -> CsvSample] : n \in 0..MaxCsvSamples}

\* the lower distance test taken as strict
OutlierReasons_strict(s) ==
    (IF s.measure_m < 150 THEN <<"Demasiado cerca/Zero">> ELSE <<>>)
    \o (IF s.measure_m > 12000 THEN <<"Fuera de rango max">> ELSE <<>>)
    \o (IF s.quality < 20 THEN <<"Baja calidad">> ELSE <<>>)

\* the list motivo built for one sample
OutlierReasons(s) ==
    (IF s.measure_m <= 150 THEN <<"Demasiado cerca/Zero">> ELSE <<>>)
    \o (IF s.measure_m > 12000 THEN <<"Fuera de rango max">> ELSE <<>>)
    \o (IF s.quality < 20 THEN <<"Baja calidad">> ELSE <<>>)

\* for i, s in enumerate(samples): ... if motivo: outliers.append({...})
RECURSIVE OutlierLoop(_, _, _)
OutlierLoop(ss, i, out) ==
    IF ss = <<>> THEN out
    ELSE OutlierLoop(Tail(ss), i + 1,
           IF OutlierReasons(Head(ss)) # <<>>
           THEN Append(out, [index |-> i, angle |-> Head(ss).angle,
                             dist |-> Head(ss).measure_m,
                             reasons |-> OutlierReasons(Head(ss))])
           ELSE out)

detect_outliers(ss) == OutlierLoop(ss, 0, <<>>)

\* detect_outliers applied to the list
ApplyDetectOutliers ==
    /\ "detect_outliers" \notin proc_done
    /\ outliers' = detect_outliers(samples)
    /\ proc_done' = proc_done \cup {"detect_outliers"}
    /\ UNCHANGED <<samples, verdicts, projected>>
    /\ UNCHANGED <<lifeVars, progVars, sdVars, frameVars, recVars, readVars>>

OutlierNext == ApplyIsValid \/ ApplyDetectOutliers

(***************************************************************************)
(* Specifications                                                          *)
(***************************************************************************)
\* Checklist() and utils_csv.Checklist(): every field defaults to False
DefaultChecklist ==
    [lidar_fijo |-> FALSE, cable_ok |-> FALSE,
     parada_probada |-> FALSE, puerto_correcto |-> FALSE]

DefaultCsvChecklist ==
    [csv_exists |-> FALSE, header_ok |-> FALSE, scan_length_ok |-> FALSE,
     processed_ok |-> FALSE, files_saved_ok |-> FALSE]

\* any checklists, any program, everything at its start
Init ==
    /\ check \in Checklist
    /\ st = "INIT" /\ prev = "INIT" /\ ev = "none"
    /\ path = <<"INIT">>
    /\ csv_check \in CsvChecklist
    /\ csv_st = "INIT" /\ csv_pc = "load" /\ csv_ret = "none"
    /\ csv_shutdowns = 0
    /\ prog \in Programs
    /\ pc = "open" /\ exc = "none" /\ origin = <<"none", "none">>
    /\ exc_at = "none"
    /\ port = "unopened" /\ nframes = 0
    /\ sd_pc = "idle" /\ sd_exc = "none" /\ sd_result = "none"
    /\ calls = <<>> /\ warned = FALSE
    /\ scan = <<>> /\ frame = <<>> /\ yielded = FALSE
    /\ nsweeps = 0 /\ nyield = 0
    /\ samples \in SampleLists \cup CsvSampleLists
    /\ verdicts = <<>> /\ projected = <<>>
    /\ proc_done = {}
    /\ outliers = <<>>
    /\ decimation \in Decimations /\ rec_pc = "args"
    /\ dir_made = FALSE /\ driver_made = FALSE /\ file_made = FALSE
    /\ raw_pts = 0 /\ total_pts = 0
    /\ rows = <<>> /\ stream = <<>> /\ consumed = <<>>
    /\ file_header \in Headers /\ file_rows \in FileRows
    /\ read_pc = "call" /\ rows_read = 0 /\ read_samples = <<>>

\* the lifecycle machines under any checklists, no program started
InitLifecycle ==
    /\ check \in Checklist
    /\ st = "INIT" /\ prev = "INIT" /\ ev = "none"
    /\ path = <<"INIT">>
    /\ csv_check \in CsvChecklist
    /\ csv_st = "INIT" /\ csv_pc = "load" /\ csv_ret = "none"
    /\ csv_shutdowns = 0
    /\ prog = "record_scan"
    /\ pc = "open" /\ exc = "none" /\ origin = <<"none", "none">>
    /\ exc_at = "none"
    /\ port = "unopened" /\ nframes = 0
    /\ sd_pc = "idle" /\ sd_exc = "none" /\ sd_result = "none"
    /\ calls = <<>> /\ warned = FALSE
    /\ scan = <<>> /\ frame = <<>> /\ yielded = FALSE
    /\ nsweeps = 0 /\ nyield = 0
    /\ samples = <<>> /\ verdicts = <<>> /\ projected = <<>>
    /\ proc_done = {}
    /\ outliers = <<>>
    /\ decimation = 1 /\ rec_pc = "args"
    /\ dir_made = FALSE /\ driver_made = FALSE /\ file_made = FALSE
    /\ raw_pts = 0 /\ total_pts = 0
    /\ rows = <<>> /\ stream = <<>> /\ consumed = <<>>
    /\ file_header = CSV_HEADER /\ file_rows = <<>>
    /\ read_pc = "call" /\ rows_read = 0 /\ read_samples = <<>>

\* any program at its start, the lifecycle machines at rest
InitDriver ==
    /\ check = DefaultChecklist
    /\ st = "INIT" /\ prev = "INIT" /\ ev = "none"
    /\ path = <<"INIT">>
    /\ csv_check = DefaultCsvChecklist
    /\ csv_st = "INIT" /\ csv_pc = "load" /\ csv_ret = "none"
    /\ csv_shutdowns = 0
    /\ prog \in Programs
    /\ pc = "open" /\ exc = "none" /\ origin = <<"none", "none">>
    /\ exc_at = "none"
    /\ port = "unopened" /\ nframes = 0
    /\ sd_pc = "idle" /\ sd_exc = "none" /\ sd_result = "none"
    /\ calls = <<>> /\ warned = FALSE
    /\ scan = <<>> /\ frame = <<>> /\ yielded = FALSE
    /\ nsweeps = 0 /\ nyield = 0
    /\ samples = <<>> /\ verdicts = <<>> /\ projected = <<>>
    /\ proc_done = {}
    /\ outliers = <<>>
    /\ decimation = 1 /\ rec_pc = "args"
    /\ dir_made = FALSE /\ driver_made = FALSE /\ file_made = FALSE
    /\ raw_pts = 0 /\ total_pts = 0
    /\ rows = <<>> /\ stream = <<>> /\ consumed = <<>>
    /\ file_header = CSV_HEADER /\ file_rows = <<>>
    /\ read_pc = "call" /\ rows_read = 0 /\ read_samples = <<>>

\* the frame generator before its first sweep, everything else at rest
InitFrames ==
    /\ check = DefaultChecklist
    /\ st = "INIT" /\ prev = "INIT" /\ ev = "none"
    /\ path = <<"INIT">>
    /\ csv_check = DefaultCsvChecklist
    /\ csv_st = "INIT" /\ csv_pc = "load" /\ csv_ret = "none"
    /\ csv_shutdowns = 0
    /\ prog = "record_scan"
    /\ pc = "open" /\ exc = "none" /\ origin = <<"none", "none">>
    /\ exc_at = "none"
    /\ port = "unopened" /\ nframes = 0
    /\ sd_pc = "idle" /\ sd_exc = "none" /\ sd_result = "none"
    /\ calls = <<>> /\ warned = FALSE
    /\ scan = <<>> /\ frame = <<>> /\ yielded = FALSE
    /\ nsweeps = 0 /\ nyield = 0
    /\ samples = <<>> /\ verdicts = <<>> /\ projected = <<>>
    /\ proc_done = {}
    /\ outliers = <<>>
    /\ decimation = 1 /\ rec_pc = "args"
    /\ dir_made = FALSE /\ driver_made = FALSE /\ file_made = FALSE
    /\ raw_pts = 0 /\ total_pts = 0
    /\ rows = <<>> /\ stream = <<>> /\ consumed = <<>>
    /\ file_header = CSV_HEADER /\ file_rows = <<>>
    /\ read_pc = "call" /\ rows_read = 0 /\ read_samples = <<>>

\* any list of samples, nothing computed yet, everything else at rest
InitProcessing ==
    /\ check = DefaultChecklist
    /\ st = "INIT" /\ prev = "INIT" /\ ev = "none"
    /\ path = <<"INIT">>
    /\ csv_check = DefaultCsvChecklist
    /\ csv_st = "INIT" /\ csv_pc = "load" /\ csv_ret = "none"
    /\ csv_shutdowns = 0
    /\ prog = "record_scan"
    /\ pc = "open" /\ exc = "none" /\ origin = <<"none", "none">>
    /\ exc_at = "none"
    /\ port = "unopened" /\ nframes = 0
    /\ sd_pc = "idle" /\ sd_exc = "none" /\ sd_result = "none"
    /\ calls = <<>> /\ warned = FALSE
    /\ scan = <<>> /\ frame = <<>> /\ yielded = FALSE
    /\ nsweeps = 0 /\ nyield = 0
    /\ samples \in SampleLists
    /\ verdicts = <<>> /\ projected = <<>>
    /\ proc_done = {}
    /\ outliers = <<>>
    /\ decimation = 1 /\ rec_pc = "args"
    /\ dir_made = FALSE /\ driver_made = FALSE /\ file_made = FALSE
    /\ raw_pts = 0 /\ total_pts = 0
    /\ rows = <<>> /\ stream = <<>> /\ consumed = <<>>
    /\ file_header = CSV_HEADER /\ file_rows = <<>>
    /\ read_pc = "call" /\ rows_read = 0 /\ read_samples = <<>>

\* record_scan.main before its first statement, under any factor
InitRecorder ==
    /\ check = DefaultChecklist
    /\ st = "INIT" /\ prev = "INIT" /\ ev = "none"
    /\ path = <<"INIT">>
    /\ csv_check = DefaultCsvChecklist
    /\ csv_st = "INIT" /\ csv_pc = "load" /\ csv_ret = "none"
    /\ csv_shutdowns = 0
    /\ prog = "record_scan"
    /\ pc = "open" /\ exc = "none" /\ origin = <<"none", "none">>
    /\ exc_at = "none"
    /\ port = "unopened" /\ nframes = 0
    /\ sd_pc = "idle" /\ sd_exc = "none" /\ sd_result = "none"
    /\ calls = <<>> /\ warned = FALSE
    /\ scan = <<>> /\ frame = <<>> /\ yielded = FALSE
    /\ nsweeps = 0 /\ nyield = 0
    /\ samples = <<>> /\ verdicts = <<>> /\ projected = <<>>
    /\ proc_done = {}
    /\ outliers = <<>>
    /\ decimation \in Decimations /\ rec_pc = "args"
    /\ dir_made = FALSE /\ driver_made = FALSE /\ file_made = FALSE
    /\ raw_pts = 0 /\ total_pts = 0
    /\ rows = <<>> /\ stream = <<>> /\ consumed = <<>>
    /\ file_header = CSV_HEADER /\ file_rows = <<>>
    /\ read_pc = "call" /\ rows_read = 0 /\ read_samples = <<>>

\* read_scan_csv about to be called on any file
InitReader ==
    /\ check = DefaultChecklist
    /\ st = "INIT" /\ prev = "INIT" /\ ev = "none"
    /\ path = <<"INIT">>
    /\ csv_check = DefaultCsvChecklist
    /\ csv_st = "INIT" /\ csv_pc = "load" /\ csv_ret = "none"
    /\ csv_shutdowns = 0
    /\ prog = "record_scan"
    /\ pc = "open" /\ exc = "none" /\ origin = <<"none", "none">>
    /\ exc_at = "none"
    /\ port = "unopened" /\ nframes = 0
    /\ sd_pc = "idle" /\ sd_exc = "none" /\ sd_result = "none"
    /\ calls = <<>> /\ warned = FALSE
    /\ scan = <<>> /\ frame = <<>> /\ yielded = FALSE
    /\ nsweeps = 0 /\ nyield = 0
    /\ samples = <<>> /\ verdicts = <<>> /\ projected = <<>>
    /\ proc_done = {}
    /\ outliers = <<>>
    /\ decimation = 1 /\ rec_pc = "args"
    /\ dir_made = FALSE /\ driver_made = FALSE /\ file_made = FALSE
    /\ raw_pts = 0 /\ total_pts = 0
    /\ rows = <<>> /\ stream = <<>> /\ consumed = <<>>
    /\ file_header \in Headers /\ file_rows \in FileRows
    /\ read_pc = "call" /\ rows_read = 0 /\ read_samples = <<>>

\* any list of samples, neither pass applied yet
InitOutliers ==
    /\ check = DefaultChecklist
    /\ st = "INIT" /\ prev = "INIT" /\ ev = "none"
    /\ path = <<"INIT">>
    /\ csv_check = DefaultCsvChecklist
    /\ csv_st = "INIT" /\ csv_pc = "load" /\ csv_ret = "none"
    /\ csv_shutdowns = 0
    /\ prog = "record_scan"
    /\ pc = "open" /\ exc = "none" /\ origin = <<"none", "none">>
    /\ exc_at = "none"
    /\ port = "unopened" /\ nframes = 0
    /\ sd_pc = "idle" /\ sd_exc = "none" /\ sd_result = "none"
    /\ calls = <<>> /\ warned = FALSE
    /\ scan = <<>> /\ frame = <<>> /\ yielded = FALSE
    /\ nsweeps = 0 /\ nyield = 0
    /\ samples \in CsvSampleLists
    /\ verdicts = <<>> /\ projected = <<>>
    /\ proc_done = {}
    /\ outliers = <<>>
    /\ decimation = 1 /\ rec_pc = "args"
    /\ dir_made = FALSE /\ driver_made = FALSE /\ file_made = FALSE
    /\ raw_pts = 0 /\ total_pts = 0
    /\ rows = <<>> /\ stream = <<>> /\ consumed = <<>>
    /\ file_header = CSV_HEADER /\ file_rows = <<>>
    /\ read_pc = "call" /\ rows_read = 0 /\ read_samples = <<>>

LifeNext == (\E e \in Events : ApplyEvent(e)) \/ run_fsm

DriverNext == Program \/ shutdown_safe

Next ==
    \/ LifeNext \/ DriverNext \/ frames \/ ProcessingNext
    \/ RecorderNext \/ read_scan_csv \/ ApplyDetectOutliers

Spec == Init /\ [][Next]_vars

\* the two lifecycle state machines alone
SpecLifecycle == InitLifecycle /\ [][LifeNext]_vars

\* the programs and the shutdown sequence alone
SpecDriver == InitDriver /\ [][DriverNext]_vars

\* the generator LidarDriver.frames alone
SpecFrames == InitFrames /\ [][frames]_vars

\* the functions of lidar_processing alone
SpecProcessing == InitProcessing /\ [][ProcessingNext]_vars

\* the data path of record_scan.main alone
SpecRecorder == InitRecorder /\ [][RecorderNext]_vars

\* read_scan_csv alone
SpecReader == InitReader /\ [][read_scan_csv]_vars

\* is_valid and detect_outliers on the same list
SpecOutliers == InitOutliers /\ [][OutlierNext]_vars

\* a program that is not finished keeps executing its next statement
FairDriver == SpecDriver /\ WF_vars(DriverNext)

(***************************************************************************)
(* Properties                                                              *)
(***************************************************************************)
\* the methods requested on self.lidar, in order
Ops == [i \in 1..Len(calls) |-> calls[i][1]]

Rank(op) == CASE op = "stop" -> 1 [] op = "stop_motor" -> 2 [] op = "disconnect" -> 3

\* C1: in every execution of shutdown_safe the steps occur in the order
\* stop-of-scan, stop-of-motor, close: the first request is stop-of-scan,
\* stop-of-motor and close are never requested before stop-of-scan, the
\* requests are in strictly increasing order, and nothing follows close.
C1_ShutdownOrder ==
    /\ Len(calls) > 0 => Ops[1] = "stop"
    /\ \A i, j \in 1..Len(calls) : i < j => Rank(Ops[i]) < Rank(Ops[j])
    /\ \A i \in 1..Len(calls) : Ops[i] = "disconnect" => i = Len(calls)

C1_Witness ==
    /\ sd_result = "normal"
    /\ Ops = <<"stop", "stop_motor", "disconnect">>

\* C2 (as claimed): when stop-of-scan fails, the failure is logged and
\* stop-of-motor is still requested, and then the connection is closed.
C2_StopFailureStillStopsMotor ==
    (sd_result # "none" /\ Len(calls) > 0 /\ calls[1] = <<"stop", "fail">>)
        => (warned /\ Ops = <<"stop", "stop_motor", "disconnect">>)

\* C3: every invocation of shutdown_safe eventually executes the close step,
\* whatever the outcomes of stop-of-scan and stop-of-motor.
C3_CloseAlwaysExecutes ==
    (sd_pc = "stop") ~> (\E i \in 1..Len(calls) : Ops[i] = "disconnect")

C3_Witness ==
    /\ sd_result # "none"
    /\ calls[1] = <<"stop", "fail">>
    /\ Ops[Len(calls)] = "disconnect"

\* C4 (as claimed): once the source has been opened, every exit of the
\* program has passed through shutdown_safe.
C4_EveryExitShutsDown ==
    (pc = "exited" /\ port # "unopened") => sd_result # "none"

\* C5: an operator interrupt that arrives in the frame loop of record_scan
\* or view_live (while waiting for a frame or inside the loop body) is
\* followed by a run of shutdown_safe from its first step to its close step
\* before the program exits.
C5_InterruptStillShutsDown ==
    (/\ pc = "exited"
     /\ prog \in {"record_scan", "view_live"}
     /\ origin[1] \in {"frames", "body"}
     /\ origin[2] = "KeyboardInterrupt")
        => (/\ sd_result # "none"
            /\ Len(calls) > 0
            /\ Ops[1] = "stop"
            /\ Ops[Len(calls)] = "disconnect")

C5_Witness ==
    /\ pc = "exited"
    /\ prog = "view_live"
    /\ origin = <<"body", "KeyboardInterrupt">>
    /\ nframes > 0
    /\ sd_result = "normal"
    /\ Ops[Len(calls)] = "disconnect"

\* C6: the event 'error' moves the live FSM to ERROR from every state,
\* whatever events were applied before.
C6_ErrorAlwaysToError ==
    ev = "error" => st = "ERROR"

C6_Witness ==
    prev = "SCAN" /\ ev = "error" /\ st = "ERROR"

\* C7 (as claimed): DONE and ERROR are terminal, every later event of any
\* kind leaves the machine where it is.
C7_DoneAndErrorTerminal ==
    (ev # "none" /\ prev \in {"DONE", "ERROR"}) => st = prev

\* C7 (amended): ERROR is terminal for every event; DONE is kept by every
\* event except 'error', which moves the machine from DONE to ERROR.
C7_TerminalExceptError ==
    /\ (ev # "none" /\ prev = "ERROR") => st = "ERROR"
    /\ (ev \notin {"none", "error"} /\ prev = "DONE") => st = "DONE"
    /\ (ev = "error" /\ prev = "DONE") => st = "ERROR"

C7_Witness ==
    prev = "DONE" /\ ev = "start" /\ st = "DONE"

\* C8: transition is total and never raises: the result is always a State,
\* and an event that matches no rule for the current state ('error' from any
\* state, the four table rules, any event from STOP) leaves it unchanged.
C8_UnmatchedIsNoOp ==
    ev # "none" =>
        /\ st \in State
        /\ (~ \/ ev = "error"
              \/ prev = "STOP"
              \/ <<prev, ev>> \in {<<"INIT", "diag_ok">>, <<"INIT", "diag_fail">>,
                                   <<"DIAG", "start">>, <<"SCAN", "stop">>})
              => st = prev

C8_Witness ==
    prev = "DIAG" /\ ev = "other" /\ st = "DIAG"

\* C9 (as claimed): from STOP any event other than 'error' moves the machine
\* to DONE.
C9_StopAnyEventDone ==
    (prev = "STOP" /\ ev \notin {"none", "error"}) => st = "DONE"

\* C10 (as claimed): the lifecycle never leaves its initial state while some
\* checklist field is false, in the live FSM and in run_fsm alike.
C10_ChecklistGatesInit ==
    /\ ~ ChecklistOk(check) => st = "INIT"
    /\ ~ CsvChecklistOk(csv_check) => csv_st = "INIT"

CsvRank(x) ==
    CASE x = "INIT" -> 0 [] x = "LOAD" -> 1 [] x = "PROCESS" -> 2
      [] x = "SAVE" -> 3 [] x = "SHUTDOWN" -> 4 [] x = "ERROR" -> 5

\* C11: run_fsm moves its state one pipeline stage at a time (INIT, LOAD,
\* PROCESS, SAVE, SHUTDOWN), never skipping or revisiting one; it returns
\* SHUTDOWN exactly when all five preconditions hold, and otherwise returns
\* ERROR with its state still the stage whose precondition failed first.
C11_LinearPipeline ==
    /\ [][csv_st' # csv_st => CsvRank(csv_st') = CsvRank(csv_st) + 1]_vars
    /\ [](csv_pc = "done" =>
            /\ csv_ret \in {"SHUTDOWN", "ERROR"}
            /\ csv_ret = "SHUTDOWN" <=>
                 (/\ csv_check.csv_exists /\ csv_check.header_ok
                  /\ csv_check.scan_length_ok /\ csv_check.processed_ok
                  /\ csv_check.files_saved_ok)
            /\ csv_st =
                 IF ~ (csv_check.csv_exists /\ csv_check.header_ok
                       /\ csv_check.scan_length_ok) THEN "LOAD"
                 ELSE IF ~ csv_check.processed_ok THEN "PROCESS"
                 ELSE IF ~ csv_check.files_saved_ok THEN "SAVE"
                 ELSE "SHUTDOWN")

C11_Witness ==
    /\ csv_pc = "done" /\ csv_ret = "ERROR" /\ csv_st = "PROCESS"
    /\ ~ csv_check.processed_ok /\ csv_check.files_saved_ok

\* C12: run_fsm has called shutdown_safe exactly once when it returns, on the
\* success path and on every ERROR path, and not at all before.
C12_ShutdownExactlyOnce ==
    /\ csv_pc = "done" => (csv_shutdowns = 1 /\ csv_ret # "none")
    /\ csv_pc # "done" => (csv_shutdowns = 0 /\ csv_ret = "none")

C12_Witness ==
    csv_pc = "done" /\ csv_ret = "ERROR" /\ csv_shutdowns = 1

\* C14 (as claimed): whichever of the three steps of shutdown_safe fail with
\* an error, the failure is logged and shutdown_safe returns normally.
C14_FailuresNeverEscalate ==
    (/\ sd_result # "none"
     /\ \A i \in 1..Len(calls) : calls[i][2] # "intr")
        => (/\ sd_result = "normal"
            /\ (\E i \in 1..Len(calls) : calls[i][2] = "fail") => warned)

\* C15 (as claimed): when an error ended the frame loop of record_scan and a
\* step of the following shutdown failed too, the shutdown still reaches its
\* close step and the error the program ends with is the one raised in the
\* frame loop.
C15_UpstreamErrorReported ==
    (/\ pc = "exited" /\ prog = "record_scan"
     /\ origin[1] \in {"frames", "body"} /\ origin[2] = "Exception"
     /\ \E i \in 1..Len(calls) : calls[i][2] = "fail"
     /\ \A i \in 1..Len(calls) : calls[i][2] # "intr")
        => (/\ exc = "Exception"
            /\ exc_at = origin[1]
            /\ Ops[Len(calls)] = "disconnect")

\* C16: no point with distance <= 0 is in a frame yielded by frames.
C16_NoNonPositiveDistance ==
    yielded => \A i \in 1..Len(frame) : frame[i][3] > 0

C16_Witness ==
    /\ yielded
    /\ \E i \in 1..Len(scan) : scan[i][3] <= 0 /\ scan[i][1] >= 10

\* C17: every yielded frame has at least one point; a sweep whose points
\* are all filtered out (quality below 10, distance below 150 mm or above
\* 12000 mm) yields nothing, and the generator goes on to the next sweep.
C17_NoEmptyFrame ==
    /\ yielded => Len(frame) >= 1
    /\ (/\ nsweeps > 0
        /\ \A i \in 1..Len(scan) :
              scan[i][1] < 10 \/ scan[i][3] < 150 \/ scan[i][3] > 12000)
          => ~ yielded
    /\ nyield <= nsweeps

C17_Witness ==
    nsweeps = 2 /\ nyield = 1 /\ yielded /\ Len(frame) >= 1

\* C18 (as claimed): a point at exactly 150 mm is never in a yielded frame,
\* and a point of quality >= 10 at exactly 12000 mm always is.
C18_LowerExclusiveUpperInclusive ==
    /\ yielded => \A i \in 1..Len(frame) : frame[i][3] # 150
    /\ \A i \in 1..Len(scan) :
          (scan[i][1] >= 10 /\ scan[i][3] = 12000)
             => (yielded /\ \E j \in 1..Len(frame) : frame[j] = scan[i])

\* C19: is_valid(sample) is true exactly when ok == 1, quality >= 20 and
\* 0.20 m < measure_m <= 10.0 m.
C19_IsValidIff ==
    "is_valid" \in proc_done =>
        /\ Len(verdicts) = Len(samples)
        /\ \A i \in 1..Len(samples) :
              verdicts[i] <=> (/\ samples[i].ok = 1
                               /\ samples[i].quality >= 20
                               /\ 200 < samples[i].measure_m
                               /\ samples[i].measure_m <= 10000)

C19_Witness ==
    /\ "is_valid" \in proc_done
    /\ Len(samples) = 2
    /\ samples[1].ok = 1 /\ samples[1].quality = 20
    /\ samples[1].measure_m = 200 /\ ~ verdicts[1]
    /\ samples[2].ok = 1 /\ samples[2].quality = 20
    /\ samples[2].measure_m = 10000 /\ verdicts[2]

C20_Accepted(s) ==
    s.ok = 1 /\ s.quality >= 20 /\ 200 < s.measure_m /\ s.measure_m <= 10000

\* C20: filter_and_project returns one tuple per accepted sample and none for
\* the others, in input order, each with the quality, angle and distance of
\* its sample.
C20_OrderPreservingFilter ==
    "filter_and_project" \in proc_done =>
        LET kept == SelectSeq(samples, C20_Accepted) IN
        /\ Len(projected) = Len(kept)
        /\ \A i \in 1..Len(kept) :
              /\ projected[i][3] = kept[i].quality
              /\ projected[i][4] = kept[i].angle
              /\ projected[i][5] = kept[i].measure_m

C20_Witness ==
    /\ "filter_and_project" \in proc_done
    /\ Len(samples) = 2 /\ Len(projected) = 2
    /\ projected[1][5] # projected[2][5]

\* C21: with a factor N >= 1 the recorder has written floor(L/N) of the L
\* points it consumed, namely those at positions N, 2N, 3N, ... of the
\* consumed stream; the counter runs across the whole run and is not reset at
\* frame boundaries, and with N = 1 every consumed point is written
C21_EveryNthOfConsumed ==
    (decimation >= 1 /\ rec_pc \in {"frames", "finally", "done"}) =>
        /\ raw_pts = Len(consumed)
        /\ total_pts = Len(consumed) \div decimation
        /\ Len(rows) = total_pts
        /\ \A k \in 1..Len(rows) : rows[k] = consumed[k * decimation]
        /\ (decimation = 1 => rows = consumed)

\* a second frame whose first point is position 2 of the run: under factor 2
\* that point is written and the one after it is not
C21_Witness ==
    /\ decimation = 2
    /\ nyield = 2 /\ Len(frame) = 2 /\ Len(consumed) = 3
    /\ consumed[2] # consumed[3]
    /\ rows = <<consumed[2]>>

\* C22 as stated: every reading delivered by the source advances the
\* decimation counter, also the readings LidarDriver.frames discards
C22_CounterCountsRawReadings ==
    (rec_pc \in {"frames", "finally", "done"}) => raw_pts = Len(stream)

\* C22: the decimation counter counts the points of the frames handed over by
\* LidarDriver.frames, that is the readings with quality >= 10 and
\* 150 <= distance <= 12000 mm; a reading the filter discards does not
\* advance it
C22_CounterCountsFilteredPoints ==
    (rec_pc \in {"frames", "finally", "done"}) =>
        /\ raw_pts = Cardinality({i \in 1..Len(stream) :
                                    /\ stream[i][1] >= QUALITY_MIN
                                    /\ stream[i][3] >= DIST_MIN_MM
                                    /\ stream[i][3] <= DIST_MAX_MM})
        /\ raw_pts = Len(consumed)

\* a discarded reading followed by a kept one: the counter stands at 1
C22_Witness ==
    /\ Len(stream) = 2
    /\ stream[1][1] < QUALITY_MIN
    /\ stream[2][1] >= QUALITY_MIN
    /\ raw_pts = 1

\* C23: a factor < 1 is refused before any I/O: the output directory and
\* file are never created, the source is never opened, no frame is consumed
C23_BadFactorNoIO ==
    (decimation < 1) =>
        /\ rec_pc \in {"args", "rejected"}
        /\ ~ dir_made /\ ~ file_made /\ ~ driver_made
        /\ nsweeps = 0 /\ nyield = 0
        /\ raw_pts = 0 /\ rows = <<>>

C23_Witness == decimation = 0 /\ rec_pc = "rejected"

\* the conditions of detect_outliers that hold for a sample
C24_Tags(s) ==
    {t \in {"Demasiado cerca/Zero", "Fuera de rango max", "Baja calidad"} :
        \/ (t = "Demasiado cerca/Zero" /\ s.measure_m <= 150)
        \/ (t = "Fuera de rango max" /\ s.measure_m > 12000)
        \/ (t = "Baja calidad" /\ s.quality < 20)}

\* C24: detect_outliers reports sample i iff its distance is <= 0.15 m or
\* > 12.0 m or its quality is < 20; the reasons of a record are exactly the
\* conditions that hold, records come in increasing index order with the
\* original index, and the input list is as it was
C24_OutliersExact ==
    ("detect_outliers" \in proc_done) =>
        /\ \A i \in 1..Len(samples) :
             (C24_Tags(samples[i]) # {}) <=>
                 (\E k \in 1..Len(outliers) : outliers[k].index = i - 1)
        /\ \A k \in 1..Len(outliers) :
             /\ outliers[k].index + 1 \in 1..Len(samples)
             /\ outliers[k].angle = samples[outliers[k].index + 1].angle
             /\ outliers[k].dist = samples[outliers[k].index + 1].measure_m
             /\ {outliers[k].reasons[j] : j \in 1..Len(outliers[k].reasons)}
                  = C24_Tags(samples[outliers[k].index + 1])
             /\ Len(outliers[k].reasons)
                  = Cardinality(C24_Tags(samples[outliers[k].index + 1]))
        /\ \A k, l \in 1..Len(outliers) :
             k < l => outliers[k].index < outliers[l].index
        /\ samples \in CsvSampleLists

\* a clean sample between a sample with two reasons and one at exactly 0.15 m
C24_Witness ==
    /\ "detect_outliers" \in proc_done
    /\ Len(samples) = 3
    /\ samples[1].measure_m = 12001 /\ samples[1].quality = 19
    /\ samples[2].measure_m = 12000 /\ samples[2].quality = 20
    /\ samples[3].measure_m = 150 /\ samples[3].quality = 20
    /\ Len(outliers) = 2
    /\ outliers[1].reasons = <<"Fuera de rango max", "Baja calidad">>
    /\ outliers[2].index = 2

C26_DiagFailAlwaysToError ==
    (ev = "diag_fail") => (st = "ERROR")

\* C27: SCAN is entered only from DIAG by 'start', STOP only from SCAN by
\* 'stop', DONE only from STOP, and DIAG only from INIT by 'diag_ok'; a run
\* that is in SCAN, STOP or DONE has been through INIT, DIAG, SCAN, STOP in
\* that order
C27_LifecycleOrder ==
    /\ (st # prev /\ st = "DIAG") => (prev = "INIT" /\ ev = "diag_ok")
    /\ (st # prev /\ st = "SCAN") => (prev = "DIAG" /\ ev = "start")
    /\ (st # prev /\ st = "STOP") => (prev = "SCAN" /\ ev = "stop")
    /\ (st # prev /\ st = "DONE") => (prev = "STOP")
    /\ (st = "DIAG") => (path = <<"INIT", "DIAG">>)
    /\ (st = "SCAN") => (path = <<"INIT", "DIAG", "SCAN">>)
    /\ (st = "STOP") => (path = <<"INIT", "DIAG", "SCAN", "STOP">>)
    /\ (st = "DONE") => (path = <<"INIT", "DIAG", "SCAN", "STOP", "DONE">>)

C27_Witness ==
    /\ st = "DONE" /\ prev = "STOP"
    /\ path = <<"INIT", "DIAG", "SCAN", "STOP", "DONE">>

\* C28: a sample accepted by is_valid gets no tag from detect_outliers
C28_ValidNeverOutlier ==
    ({"is_valid", "detect_outliers"} \subseteq proc_done) =>
        \A i \in 1..Len(samples) :
            verdicts[i] =>
                ~ (\E k \in 1..Len(outliers) : outliers[k].index = i - 1)

\* the converse fails: three samples is_valid rejects and detect_outliers
\* does not report (ok = 0; 0.15 m < distance <= 0.20 m;
\* 10.0 m < distance <= 12.0 m)
C28_Witness ==
    /\ {"is_valid", "detect_outliers"} \subseteq proc_done
    /\ Len(samples) = 3
    /\ samples[1].ok = 0
    /\ samples[2].ok = 1 /\ samples[2].quality = 20 /\ samples[2].measure_m = 151
    /\ samples[3].ok = 1 /\ samples[3].quality = 20 /\ samples[3].measure_m = 10001
    /\ verdicts = <<FALSE, FALSE, FALSE>>
    /\ outliers = <<>>

============================================================================
